---- MODULE Spec2Model ----
(***************************************************************************)
(* SnapBoost backend (src/main_api.py): a FastAPI application with a       *)
(* health check and five generation endpoints.  Each generation handler    *)
(* builds a prompt from the request fields, calls the shared Gemini model  *)
(* once with the synchronous generate_content, and answers with the        *)
(* stripped text or with an error body.                                    *)
(*                                                                         *)
(* Text is modelled as a sequence of characters, so that strip(), lower()  *)
(* and the `in` test are computed as Python computes them.  A character    *)
(* outside ASCII is written by its code point ("U+274C").                  *)
(*                                                                         *)
(* The handlers are `async def` coroutines, which FastAPI runs on the      *)
(* event loop of the server process; generate_content is an ordinary       *)
(* blocking call, not awaited, so the event loop runs nothing else until   *)
(* it returns.  The variable loop records which request holds the loop.    *)
(***************************************************************************)
EXTENDS Naturals, Integers, Sequences, FiniteSets, TLC

VARIABLES
    gemini_model,   \* the shared model handle (module level, line 13)
    st,             \* request -> "idle" | "pending" | "calling" | "done"
    ep,             \* request -> the path operation it addresses
    req,            \* request -> the parsed body, while the request is alive
    prompt,         \* request -> the handler's local prompt, while it runs
    hangs,          \* request -> TRUE iff its collaborator call never returns
    reply,          \* request -> what the collaborator answered to its call
    calls,          \* request -> number of generate_content calls made for it
    resp,           \* request -> the responses sent back for it
    loop            \* the request running on the event loop, 0 when it is free

vars == <<gemini_model, st, ep, req, prompt, hangs, reply, calls, resp, loop>>

\* Number of requests the clients send.
NReq == 2

Requests == 1..NReq

(***************************************************************************)
(* String literals of the source, character by character.                  *)
(***************************************************************************)

\* line 30: 'U+2705 SnapBoost AI backend is running!'
HealthMessage ==
    << "U+2705", " ", "S", "n", "a", "p", "B", "o", "o", "s", "t", " ", "A", "I", " ", "b", "a",
       "c", "k", "e", "n", "d", " ", "i", "s", " ", "r", "u", "n", "n", "i", "n", "g", "!" >>

\* line 40: 'caption'
kw_caption ==
    << "c", "a", "p", "t", "i", "o", "n" >>

\* line 42: 'idea'
kw_idea ==
    << "i", "d", "e", "a" >>

\* line 44: 'launch plan'
kw_launch_plan ==
    << "l", "a", "u", "n", "c", "h", " ", "p", "l", "a", "n" >>

\* line 100: 'short'
kw_short ==
    << "s", "h", "o", "r", "t" >>

\* line 100: 'reel'
kw_reel ==
    << "r", "e", "e", "l" >>

\* line 41: 'Write a short, catchy social media caption for the launch of: '
CaptionTemplate ==
    << "W", "r", "i", "t", "e", " ", "a", " ", "s", "h", "o", "r", "t", ",", " ", "c", "a", "t",
       "c", "h", "y", " ", "s", "o", "c", "i", "a", "l", " ", "m", "e", "d", "i", "a", " ", "c",
       "a", "p", "t", "i", "o", "n", " ", "f", "o", "r", " ", "t", "h", "e", " ", "l", "a", "u",
       "n", "c", "h", " ", "o", "f", ":", " " >>

\* line 43: 'Give me creative marketing ideas for the launch of: '
IdeaTemplate ==
    << "G", "i", "v", "e", " ", "m", "e", " ", "c", "r", "e", "a", "t", "i", "v", "e", " ", "m",
       "a", "r", "k", "e", "t", "i", "n", "g", " ", "i", "d", "e", "a", "s", " ", "f", "o", "r",
       " ", "t", "h", "e", " ", "l", "a", "u", "n", "c", "h", " ", "o", "f", ":", " " >>

\* line 45: 'Create a simple and effective launch plan for: '
LaunchPlanTemplate ==
    << "C", "r", "e", "a", "t", "e", " ", "a", " ", "s", "i", "m", "p", "l", "e", " ", "a", "n",
       "d", " ", "e", "f", "f", "e", "c", "t", "i", "v", "e", " ", "l", "a", "u", "n", "c", "h",
       " ", "p", "l", "a", "n", " ", "f", "o", "r", ":", " " >>

\* line 47: 'Tell me something helpful related to: '
FallbackTemplate ==
    << "T", "e", "l", "l", " ", "m", "e", " ", "s", "o", "m", "e", "t", "h", "i", "n", "g", " ",
       "h", "e", "l", "p", "f", "u", "l", " ", "r", "e", "l", "a", "t", "e", "d", " ", "t", "o",
       ":", " " >>

\* line 52: 'U+274C Failed to generate caption. Reason: '
CaptionErrorPrefix ==
    << "U+274C", " ", "F", "a", "i", "l", "e", "d", " ", "t", "o", " ", "g", "e", "n", "e", "r",
       "a", "t", "e", " ", "c", "a", "p", "t", "i", "o", "n", ".", " ", "R", "e", "a", "s", "o",
       "n", ":", " " >>

\* line 60: '\n    Generate a list of high-engagement social media hashtags based on the following caption. \n    Avoid spaces and return only the hashtags in Python list format.\n    Caption: '
HashtagsHead ==
    << "\n", " ", " ", " ", " ", "G", "e", "n", "e", "r", "a", "t", "e", " ", "a", " ", "l", "i",
       "s", "t", " ", "o", "f", " ", "h", "i", "g", "h", "-", "e", "n", "g", "a", "g", "e", "m",
       "e", "n", "t", " ", "s", "o", "c", "i", "a", "l", " ", "m", "e", "d", "i", "a", " ", "h",
       "a", "s", "h", "t", "a", "g", "s", " ", "b", "a", "s", "e", "d", " ", "o", "n", " ", "t",
       "h", "e", " ", "f", "o", "l", "l", "o", "w", "i", "n", "g", " ", "c", "a", "p", "t", "i",
       "o", "n", ".", " ", "\n", " ", " ", " ", " ", "A", "v", "o", "i", "d", " ", "s", "p", "a",
       "c", "e", "s", " ", "a", "n", "d", " ", "r", "e", "t", "u", "r", "n", " ", "o", "n", "l",
       "y", " ", "t", "h", "e", " ", "h", "a", "s", "h", "t", "a", "g", "s", " ", "i", "n", " ",
       "P", "y", "t", "h", "o", "n", " ", "l", "i", "s", "t", " ", "f", "o", "r", "m", "a", "t",
       ".", "\n", " ", " ", " ", " ", "C", "a", "p", "t", "i", "o", "n", ":", " " >>

\* line 60: '\n    '
HashtagsTail ==
    << "\n", " ", " ", " ", " " >>

\* line 79: '\n    You are a creative AI assistant for content creators. Generate 10 unique and viral content ideas for '
IdeasPart1 ==
    << "\n", " ", " ", " ", " ", "Y", "o", "u", " ", "a", "r", "e", " ", "a", " ", "c", "r", "e",
       "a", "t", "i", "v", "e", " ", "A", "I", " ", "a", "s", "s", "i", "s", "t", "a", "n", "t",
       " ", "f", "o", "r", " ", "c", "o", "n", "t", "e", "n", "t", " ", "c", "r", "e", "a", "t",
       "o", "r", "s", ".", " ", "G", "e", "n", "e", "r", "a", "t", "e", " ", "1", "0", " ", "u",
       "n", "i", "q", "u", "e", " ", "a", "n", "d", " ", "v", "i", "r", "a", "l", " ", "c", "o",
       "n", "t", "e", "n", "t", " ", "i", "d", "e", "a", "s", " ", "f", "o", "r", " " >>

\* line 79: ' creators \n    in the "'
IdeasPart2 ==
    << " ", "c", "r", "e", "a", "t", "o", "r", "s", " ", "\n", " ", " ", " ", " ", "i", "n", " ",
       "t", "h", "e", " ", "\"" >>

\* line 79: '" niche. Each idea should be engaging, suitable for the '
IdeasPart3 ==
    << "\"", " ", "n", "i", "c", "h", "e", ".", " ", "E", "a", "c", "h", " ", "i", "d", "e", "a",
       " ", "s", "h", "o", "u", "l", "d", " ", "b", "e", " ", "e", "n", "g", "a", "g", "i", "n",
       "g", ",", " ", "s", "u", "i", "t", "a", "b", "l", "e", " ", "f", "o", "r", " ", "t", "h",
       "e", " " >>

\* line 79: ', and relevant to current trends.\n    Output the ideas as a numbered list.\n    '
IdeasPart4 ==
    << ",", " ", "a", "n", "d", " ", "r", "e", "l", "e", "v", "a", "n", "t", " ", "t", "o", " ",
       "c", "u", "r", "r", "e", "n", "t", " ", "t", "r", "e", "n", "d", "s", ".", "\n", " ", " ",
       " ", " ", "O", "u", "t", "p", "u", "t", " ", "t", "h", "e", " ", "i", "d", "e", "a", "s",
       " ", "a", "s", " ", "a", " ", "n", "u", "m", "b", "e", "r", "e", "d", " ", "l", "i", "s",
       "t", ".", "\n", " ", " ", " ", " " >>

\* line 88: 'U+274C Failed to generate ideas. Reason: '
IdeasErrorPrefix ==
    << "U+274C", " ", "F", "a", "i", "l", "e", "d", " ", "t", "o", " ", "g", "e", "n", "e", "r",
       "a", "t", "e", " ", "i", "d", "e", "a", "s", ".", " ", "R", "e", "a", "s", "o", "n", ":",
       " " >>

\* line 101: '\n        Generate an engaging script for a 1-minute '
ShortPart1 ==
    << "\n", " ", " ", " ", " ", " ", " ", " ", " ", "G", "e", "n", "e", "r", "a", "t", "e", " ",
       "a", "n", " ", "e", "n", "g", "a", "g", "i", "n", "g", " ", "s", "c", "r", "i", "p", "t",
       " ", "f", "o", "r", " ", "a", " ", "1", "-", "m", "i", "n", "u", "t", "e", " " >>

\* line 101: ' about "'
ShortPart2 ==
    << " ", "a", "b", "o", "u", "t", " ", "\"" >>

\* line 101: '".\n        The script should have an attention-grabbing hook in the first few seconds,\n        use a casual and high-energy tone, include visual/action suggestions,\n        and end with a strong call to action.\n        '
ShortPart3 ==
    << "\"", ".", "\n", " ", " ", " ", " ", " ", " ", " ", " ", "T", "h", "e", " ", "s", "c", "r",
       "i", "p", "t", " ", "s", "h", "o", "u", "l", "d", " ", "h", "a", "v", "e", " ", "a", "n",
       " ", "a", "t", "t", "e", "n", "t", "i", "o", "n", "-", "g", "r", "a", "b", "b", "i", "n",
       "g", " ", "h", "o", "o", "k", " ", "i", "n", " ", "t", "h", "e", " ", "f", "i", "r", "s",
       "t", " ", "f", "e", "w", " ", "s", "e", "c", "o", "n", "d", "s", ",", "\n", " ", " ", " ",
       " ", " ", " ", " ", " ", "u", "s", "e", " ", "a", " ", "c", "a", "s", "u", "a", "l", " ",
       "a", "n", "d", " ", "h", "i", "g", "h", "-", "e", "n", "e", "r", "g", "y", " ", "t", "o",
       "n", "e", ",", " ", "i", "n", "c", "l", "u", "d", "e", " ", "v", "i", "s", "u", "a", "l",
       "/", "a", "c", "t", "i", "o", "n", " ", "s", "u", "g", "g", "e", "s", "t", "i", "o", "n",
       "s", ",", "\n", " ", " ", " ", " ", " ", " ", " ", " ", "a", "n", "d", " ", "e", "n", "d",
       " ", "w", "i", "t", "h", " ", "a", " ", "s", "t", "r", "o", "n", "g", " ", "c", "a", "l",
       "l", " ", "t", "o", " ", "a", "c", "t", "i", "o", "n", ".", "\n", " ", " ", " ", " ", " ",
       " ", " ", " " >>

\* line 108: '\n        Generate a detailed script for a YouTube video about "'
LongPart1 ==
    << "\n", " ", " ", " ", " ", " ", " ", " ", " ", "G", "e", "n", "e", "r", "a", "t", "e", " ",
       "a", " ", "d", "e", "t", "a", "i", "l", "e", "d", " ", "s", "c", "r", "i", "p", "t", " ",
       "f", "o", "r", " ", "a", " ", "Y", "o", "u", "T", "u", "b", "e", " ", "v", "i", "d", "e",
       "o", " ", "a", "b", "o", "u", "t", " ", "\"" >>

\* line 108: '".\n        The script should last about 10 minutes and include:\n        - Hook in the intro\n        - Structured explanation in sections\n        - Engaging storytelling tone\n        - Visual suggestions for each section\n        - Call to action at the end\n        Format the response as a script with timestamps.\n        '
LongPart2 ==
    << "\"", ".", "\n", " ", " ", " ", " ", " ", " ", " ", " ", "T", "h", "e", " ", "s", "c", "r",
       "i", "p", "t", " ", "s", "h", "o", "u", "l", "d", " ", "l", "a", "s", "t", " ", "a", "b",
       "o", "u", "t", " ", "1", "0", " ", "m", "i", "n", "u", "t", "e", "s", " ", "a", "n", "d",
       " ", "i", "n", "c", "l", "u", "d", "e", ":", "\n", " ", " ", " ", " ", " ", " ", " ", " ",
       "-", " ", "H", "o", "o", "k", " ", "i", "n", " ", "t", "h", "e", " ", "i", "n", "t", "r",
       "o", "\n", " ", " ", " ", " ", " ", " ", " ", " ", "-", " ", "S", "t", "r", "u", "c", "t",
       "u", "r", "e", "d", " ", "e", "x", "p", "l", "a", "n", "a", "t", "i", "o", "n", " ", "i",
       "n", " ", "s", "e", "c", "t", "i", "o", "n", "s", "\n", " ", " ", " ", " ", " ", " ", " ",
       " ", "-", " ", "E", "n", "g", "a", "g", "i", "n", "g", " ", "s", "t", "o", "r", "y", "t",
       "e", "l", "l", "i", "n", "g", " ", "t", "o", "n", "e", "\n", " ", " ", " ", " ", " ", " ",
       " ", " ", "-", " ", "V", "i", "s", "u", "a", "l", " ", "s", "u", "g", "g", "e", "s", "t",
       "i", "o", "n", "s", " ", "f", "o", "r", " ", "e", "a", "c", "h", " ", "s", "e", "c", "t",
       "i", "o", "n", "\n", " ", " ", " ", " ", " ", " ", " ", " ", "-", " ", "C", "a", "l", "l",
       " ", "t", "o", " ", "a", "c", "t", "i", "o", "n", " ", "a", "t", " ", "t", "h", "e", " ",
       "e", "n", "d", "\n", " ", " ", " ", " ", " ", " ", " ", " ", "F", "o", "r", "m", "a", "t",
       " ", "t", "h", "e", " ", "r", "e", "s", "p", "o", "n", "s", "e", " ", "a", "s", " ", "a",
       " ", "s", "c", "r", "i", "p", "t", " ", "w", "i", "t", "h", " ", "t", "i", "m", "e", "s",
       "t", "a", "m", "p", "s", ".", "\n", " ", " ", " ", " ", " ", " ", " ", " " >>

\* line 133: 'Generate a detailed and visually rich prompt for an AI image generator to create a thumbnail for a '
ThumbPart1 ==
    << "G", "e", "n", "e", "r", "a", "t", "e", " ", "a", " ", "d", "e", "t", "a", "i", "l", "e",
       "d", " ", "a", "n", "d", " ", "v", "i", "s", "u", "a", "l", "l", "y", " ", "r", "i", "c",
       "h", " ", "p", "r", "o", "m", "p", "t", " ", "f", "o", "r", " ", "a", "n", " ", "A", "I",
       " ", "i", "m", "a", "g", "e", " ", "g", "e", "n", "e", "r", "a", "t", "o", "r", " ", "t",
       "o", " ", "c", "r", "e", "a", "t", "e", " ", "a", " ", "t", "h", "u", "m", "b", "n", "a",
       "i", "l", " ", "f", "o", "r", " ", "a", " " >>

\* line 133: ' video.\nTopic: "'
ThumbPart2 ==
    << " ", "v", "i", "d", "e", "o", ".", "\n", "T", "o", "p", "i", "c", ":", " ", "\"" >>

\* line 133: '"\nStyle: '
ThumbPart3 ==
    << "\"", "\n", "S", "t", "y", "l", "e", ":", " " >>

\* line 133: '\nFocus on visual details like colors, elements, facial expressions, mood, typography, and composition.\nAvoid text in the prompt itself unless required.'
ThumbPart4 ==
    << "\n", "F", "o", "c", "u", "s", " ", "o", "n", " ", "v", "i", "s", "u", "a", "l", " ", "d",
       "e", "t", "a", "i", "l", "s", " ", "l", "i", "k", "e", " ", "c", "o", "l", "o", "r", "s",
       ",", " ", "e", "l", "e", "m", "e", "n", "t", "s", ",", " ", "f", "a", "c", "i", "a", "l",
       " ", "e", "x", "p", "r", "e", "s", "s", "i", "o", "n", "s", ",", " ", "m", "o", "o", "d",
       ",", " ", "t", "y", "p", "o", "g", "r", "a", "p", "h", "y", ",", " ", "a", "n", "d", " ",
       "c", "o", "m", "p", "o", "s", "i", "t", "i", "o", "n", ".", "\n", "A", "v", "o", "i", "d",
       " ", "t", "e", "x", "t", " ", "i", "n", " ", "t", "h", "e", " ", "p", "r", "o", "m", "p",
       "t", " ", "i", "t", "s", "e", "l", "f", " ", "u", "n", "l", "e", "s", "s", " ", "r", "e",
       "q", "u", "i", "r", "e", "d", "." >>

\* line 123: 'U+274C Failed to generate script. Please try again later.'
ScriptErrorMessage ==
    << "U+274C", " ", "F", "a", "i", "l", "e", "d", " ", "t", "o", " ", "g", "e", "n", "e", "r",
       "a", "t", "e", " ", "s", "c", "r", "i", "p", "t", ".", " ", "P", "l", "e", "a", "s", "e",
       " ", "t", "r", "y", " ", "a", "g", "a", "i", "n", " ", "l", "a", "t", "e", "r", "." >>

(***************************************************************************)
(* Request field values, collaborator texts and failure messages the       *)
(* clients and the collaborator are drawn from (ev_, ch_, cap_, pl_, ni_,  *)
(* au_, sty_, top_, vt_, txt_, msg_), and phrases the properties look for  *)
(* in a prompt (ph_).                                                      *)
(***************************************************************************)

\* 'sneaker launch'
ev_sneaker ==
    << "s", "n", "e", "a", "k", "e", "r", " ", "l", "a", "u", "n", "c", "h" >>

\* ' Q&A\n'
ev_qa ==
    << " ", "Q", "&", "A", "\n" >>

\* ' Caption\n'
ch_caption ==
    << " ", "C", "a", "p", "t", "i", "o", "n", "\n" >>

\* 'IDEA'
ch_idea ==
    << "I", "D", "E", "A" >>

\* 'Launch Plan'
ch_launch ==
    << "L", "a", "u", "n", "c", "h", " ", "P", "l", "a", "n" >>

\* ''
ch_empty ==
    <<  >>

\* 'captions'
ch_captions ==
    << "c", "a", "p", "t", "i", "o", "n", "s" >>

\* 'New drop!'
cap_drop ==
    << "N", "e", "w", " ", "d", "r", "o", "p", "!" >>

\* ' #Hi '
cap_hi ==
    << " ", "#", "H", "i", " " >>

\* 'YouTube'
pl_youtube ==
    << "Y", "o", "u", "T", "u", "b", "e" >>

\* ' insta '
pl_insta ==
    << " ", "i", "n", "s", "t", "a", " " >>

\* 'Fitness '
ni_fitness ==
    << "F", "i", "t", "n", "e", "s", "s", " " >>

\* 'Gen Z'
au_genz ==
    << "G", "e", "n", " ", "Z" >>

\* ' Bold\n'
sty_bold ==
    << " ", "B", "o", "l", "d", "\n" >>

\* 'AI tips'
top_ai ==
    << "A", "I", " ", "t", "i", "p", "s" >>

\* ' Short '
vt_short ==
    << " ", "S", "h", "o", "r", "t", " " >>

\* 'Insta REELS'
vt_reels ==
    << "I", "n", "s", "t", "a", " ", "R", "E", "E", "L", "S" >>

\* 'vlog'
vt_vlog ==
    << "v", "l", "o", "g" >>

\* ''
vt_empty ==
    <<  >>

\* 'ok'
txt_ok ==
    << "o", "k" >>

\* '\n Hi there \n'
txt_hi ==
    << "\n", " ", "H", "i", " ", "t", "h", "e", "r", "e", " ", "\n" >>

\* 'quota'
msg_quota ==
    << "q", "u", "o", "t", "a" >>

\* 'bad key'
msg_key ==
    << "b", "a", "d", " ", "k", "e", "y" >>

\* 'catchy social media caption'
ph_catchy ==
    << "c", "a", "t", "c", "h", "y", " ", "s", "o", "c", "i", "a", "l", " ", "m", "e", "d", "i",
       "a", " ", "c", "a", "p", "t", "i", "o", "n" >>

\* 'creative marketing ideas'
ph_creative ==
    << "c", "r", "e", "a", "t", "i", "v", "e", " ", "m", "a", "r", "k", "e", "t", "i", "n", "g",
       " ", "i", "d", "e", "a", "s" >>

\* 'Write a short, catchy social media caption for the launch of: sneaker launch'
ph_example ==
    << "W", "r", "i", "t", "e", " ", "a", " ", "s", "h", "o", "r", "t", ",", " ", "c", "a", "t",
       "c", "h", "y", " ", "s", "o", "c", "i", "a", "l", " ", "m", "e", "d", "i", "a", " ", "c",
       "a", "p", "t", "i", "o", "n", " ", "f", "o", "r", " ", "t", "h", "e", " ", "l", "a", "u",
       "n", "c", "h", " ", "o", "f", ":", " ", "s", "n", "e", "a", "k", "e", "r", " ", "l", "a",
       "u", "n", "c", "h" >>

\* '1-minute'
ph_one_minute ==
    << "1", "-", "m", "i", "n", "u", "t", "e" >>

\* '10 minutes'
ph_ten_minutes ==
    << "1", "0", " ", "m", "i", "n", "u", "t", "e", "s" >>

\* 'timestamps'
ph_timestamps ==
    << "t", "i", "m", "e", "s", "t", "a", "m", "p", "s" >>

Events == {ev_sneaker, ev_qa}

Choices == {ch_caption, ch_idea, ch_launch, ch_empty, ch_captions}

Captions == {cap_drop, cap_hi}

Platforms == {pl_youtube, pl_insta}

Niches == {ni_fitness}

Audiences == {au_genz}

Styles == {sty_bold}

Topics == {top_ai, ev_qa}

VideoTypes == {vt_short, vt_reels, vt_vlog, vt_empty}

Texts == {txt_ok, txt_hi}

Messages == {msg_quota, msg_key}

Endpoints == {"root", "caption", "hashtags", "ideas", "script", "thumbnail"}

\* The bodies a client may post to each path operation.
Bodies(e) ==
    CASE e = "root"      -> {[none |-> TRUE]}
      [] e = "caption"   -> [event : Events, choice : Choices]
      [] e = "hashtags"  -> [caption : Captions]
      [] e = "ideas"     -> [platform : Platforms, niche : Niches, audience_type : Audiences]
      [] e = "script"    -> [video_type : VideoTypes, topic : Topics]
      [] e = "thumbnail" -> [topic : Topics, style : Styles, platform : Platforms]

(***************************************************************************)
(* Python string operations used by the handlers.                          *)
(***************************************************************************)

Whitespace == {" ", "\t", "\n", "\r"}

UpperCase == <<"A", "B", "C", "D", "E", "F", "G", "H", "I", "J", "K", "L", "M",
               "N", "O", "P", "Q", "R", "S", "T", "U", "V", "W", "X", "Y", "Z">>

LowerCase == <<"a", "b", "c", "d", "e", "f", "g", "h", "i", "j", "k", "l", "m",
               "n", "o", "p", "q", "r", "s", "t", "u", "v", "w", "x", "y", "z">>

lower_char(c) ==
    IF \E i \in 1..Len(UpperCase) : UpperCase[i] = c
    THEN LowerCase[CHOOSE i \in 1..Len(UpperCase) : UpperCase[i] = c]
    ELSE c

\* str.lower()
lower(s) == [i \in 1..Len(s) |-> lower_char(s[i])]

\* str.strip(): drops the leading and the trailing run of whitespace
strip(s) ==
    LET keep == {i \in 1..Len(s) : s[i] \notin Whitespace}
    IN  IF keep = {} THEN <<>>
        ELSE SubSeq(s, CHOOSE i \in keep : \A j \in keep : i <= j,
                       CHOOSE i \in keep : \A j \in keep : j <= i)

\* sub in s
Contains(sub, s) ==
    \/ sub = <<>>
    \/ \E i \in 0..(Len(s) - Len(sub)) :
          s[i + 1] = sub[1] /\ SubSeq(s, i + 1, i + Len(sub)) = sub

(***************************************************************************)
(* Prompt construction, one operator per handler.                          *)
(***************************************************************************)

caption_prompt_nolower(event, choice) ==
    LET c == strip(choice)
    IN  IF c = kw_caption THEN CaptionTemplate \o event
        ELSE IF c = kw_idea THEN IdeaTemplate \o event
        ELSE IF c = kw_launch_plan THEN LaunchPlanTemplate \o event
        ELSE FallbackTemplate \o event

caption_prompt(event, choice) ==
    LET c == lower(strip(choice))
    IN  IF c = kw_caption THEN CaptionTemplate \o event
        ELSE IF c = kw_idea THEN IdeaTemplate \o event
        ELSE IF c = kw_launch_plan THEN LaunchPlanTemplate \o event
        ELSE FallbackTemplate \o event

hashtags_prompt_stripped(caption) ==
    HashtagsHead \o strip(caption) \o HashtagsTail

hashtags_prompt(caption) ==
    HashtagsHead \o caption \o HashtagsTail

ideas_prompt(platform, niche, audience_type) ==
    IdeasPart1 \o platform \o IdeasPart2 \o niche \o IdeasPart3 \o audience_type \o IdeasPart4

script_prompt_short_only(video_type_in, topic_in) ==
    LET video_type == lower(strip(video_type_in))
        topic      == strip(topic_in)
    IN  IF Contains(kw_short, video_type)
        THEN ShortPart1 \o video_type \o ShortPart2 \o topic \o ShortPart3
        ELSE LongPart1 \o topic \o LongPart2

script_prompt(video_type_in, topic_in) ==
    LET video_type == lower(strip(video_type_in))
        topic      == strip(topic_in)
    IN  IF Contains(kw_short, video_type) \/ Contains(kw_reel, video_type)
        THEN ShortPart1 \o video_type \o ShortPart2 \o topic \o ShortPart3
        ELSE LongPart1 \o topic \o LongPart2

thumbnail_prompt(topic, style, platform) ==
    ThumbPart1 \o platform \o ThumbPart2 \o topic \o ThumbPart3 \o style \o ThumbPart4

(***************************************************************************)
(* Response bodies.                                                        *)
(***************************************************************************)

HealthBody == [message |-> HealthMessage]

SuccessBody_unstripped(e, text) ==
    CASE e = "caption"   -> [caption  |-> text]
      [] e = "hashtags"  -> [hashtags |-> text]
      [] e = "ideas"     -> [ideas    |-> text]
      [] e = "script"    -> [script   |-> text]
      [] e = "thumbnail" -> [prompt   |-> text]

\* return {"<field>": response.text.strip()}
SuccessBody(e, text) ==
    CASE e = "caption"   -> [caption  |-> strip(text)]
      [] e = "hashtags"  -> [hashtags |-> strip(text)]
      [] e = "ideas"     -> [ideas    |-> strip(text)]
      [] e = "script"    -> [script   |-> strip(text)]
      [] e = "thumbnail" -> [prompt   |-> strip(text)]

ErrorBody_script_leaks(e, m) ==
    CASE e = "caption"   -> [error |-> CaptionErrorPrefix \o m]
      [] e = "hashtags"  -> [error |-> m]
      [] e = "ideas"     -> [error |-> IdeasErrorPrefix \o m]
      [] e = "script"    -> [error |-> ScriptErrorMessage \o m]
      [] e = "thumbnail" -> [error |-> m]

\* except Exception as e: return {"error": ...}, m being str(e)
ErrorBody(e, m) ==
    CASE e = "caption"   -> [error |-> CaptionErrorPrefix \o m]
      [] e = "hashtags"  -> [error |-> m]
      [] e = "ideas"     -> [error |-> IdeasErrorPrefix \o m]
      [] e = "script"    -> [error |-> ScriptErrorMessage]
      [] e = "thumbnail" -> [error |-> m]

\* A JSON body returned from a path operation is sent with status 200.
Response(body) == [status |-> 200, body |-> body]

(***************************************************************************)
(* State machine.                                                          *)
(***************************************************************************)

ModelName == "models/gemini-1.5-flash"

NoRequest == <<>>

NoPrompt == <<>>

NoReply == [kind |-> "none", val |-> <<>>]

Init ==
    /\ gemini_model = ModelName
    /\ st = [r \in Requests |-> "idle"]
    /\ ep = [r \in Requests |-> "none"]
    /\ req = [r \in Requests |-> NoRequest]
    /\ prompt = [r \in Requests |-> NoPrompt]
    /\ hangs = [r \in Requests |-> FALSE]
    /\ reply = [r \in Requests |-> NoReply]
    /\ calls = [r \in Requests |-> 0]
    /\ resp = [r \in Requests |-> <<>>]
    /\ loop = 0

\* A client sends request r (requests are numbered in order of arrival); the
\* server accepts it and its handler waits for the event loop.
Arrive(r) ==
    /\ st[r] = "idle"
    /\ r > 1 => st[r - 1] # "idle"
    /\ \E e \in Endpoints : \E b \in Bodies(e) :
          /\ ep' = [ep EXCEPT ![r] = e]
          /\ req' = [req EXCEPT ![r] = b]
    /\ st' = [st EXCEPT ![r] = "pending"]
    /\ UNCHANGED <<gemini_model, prompt, hangs, reply, calls, resp, loop>>

\* The event loop can start the handler of r.
Runnable(r, e) ==
    /\ st[r] = "pending"
    /\ ep[r] = e
    /\ loop = 0

\* GET /
root_pings(r) ==
    /\ Runnable(r, "root")
    /\ calls' = [calls EXCEPT ![r] = @ + 1]
    /\ resp' = [resp EXCEPT ![r] = Append(@, Response(HealthBody))]
    /\ st' = [st EXCEPT ![r] = "done"]
    /\ req' = [req EXCEPT ![r] = NoRequest]
    /\ UNCHANGED <<gemini_model, ep, prompt, hangs, reply, loop>>

root(r) ==
    /\ Runnable(r, "root")
    /\ resp' = [resp EXCEPT ![r] = Append(@, Response(HealthBody))]
    /\ st' = [st EXCEPT ![r] = "done"]
    /\ req' = [req EXCEPT ![r] = NoRequest]
    /\ UNCHANGED <<gemini_model, ep, prompt, hangs, reply, calls, loop>>

\* gemini_model.generate_content(p) is entered: the thread of the event loop
\* blocks in it until the collaborator answers, if it ever does.
Call_rebinds(r, p) ==
    /\ prompt' = [prompt EXCEPT ![r] = p]
    /\ calls' = [calls EXCEPT ![r] = @ + 1]
    /\ \E h \in BOOLEAN : hangs' = [hangs EXCEPT ![r] = h]
    /\ st' = [st EXCEPT ![r] = "calling"]
    /\ loop' = r
    /\ gemini_model' = "models/gemini-1.5-pro"
    /\ UNCHANGED <<ep, req, reply, resp>>

Call(r, p) ==
    /\ prompt' = [prompt EXCEPT ![r] = p]
    /\ calls' = [calls EXCEPT ![r] = @ + 1]
    /\ \E h \in BOOLEAN : hangs' = [hangs EXCEPT ![r] = h]
    /\ st' = [st EXCEPT ![r] = "calling"]
    /\ loop' = r
    /\ UNCHANGED <<gemini_model, ep, req, reply, resp>>

\* POST /generate-caption/
generate_caption(r) ==
    /\ Runnable(r, "caption")
    /\ Call(r, caption_prompt(req[r].event, req[r].choice))

\* POST /generate-hashtags/
generate_hashtags(r) ==
    /\ Runnable(r, "hashtags")
    /\ Call(r, hashtags_prompt(req[r].caption))

\* POST /generate-ideas/
generate_ideas(r) ==
    /\ Runnable(r, "ideas")
    /\ Call(r, ideas_prompt(req[r].platform, req[r].niche, req[r].audience_type))

\* POST /generate-script/
generate_script(r) ==
    /\ Runnable(r, "script")
    /\ Call(r, script_prompt(req[r].video_type, req[r].topic))

\* POST /generate-thumbnail-prompt/
generate_thumbnail_prompt(r) ==
    /\ Runnable(r, "thumbnail")
    /\ Call(r, thumbnail_prompt(req[r].topic, req[r].style, req[r].platform))

\* The handler of r finishes: its locals are dropped and the event loop is free.
Finish(r, body) ==
    /\ resp' = [resp EXCEPT ![r] = Append(@, Response(body))]
    /\ st' = [st EXCEPT ![r] = "done"]
    /\ req' = [req EXCEPT ![r] = NoRequest]
    /\ prompt' = [prompt EXCEPT ![r] = NoPrompt]
    /\ loop' = 0
    /\ UNCHANGED <<gemini_model, ep, hangs, calls>>

\* generate_content returns a response whose text is t (the try branch).
Returns(r) ==
    /\ st[r] = "calling"
    /\ ~hangs[r]
    /\ \E t \in Texts :
          /\ reply' = [reply EXCEPT ![r] = [kind |-> "text", val |-> t]]
          /\ Finish(r, SuccessBody(ep[r], t))

Raises_uncaught(r) ==
    /\ st[r] = "calling"
    /\ ~hangs[r]
    /\ \E m \in Messages :
          /\ reply' = [reply EXCEPT ![r] = [kind |-> "error", val |-> m]]
          /\ resp' = [resp EXCEPT ![r] = Append(@, [status |-> 500, body |-> [detail |-> m]])]
          /\ st' = [st EXCEPT ![r] = "done"]
          /\ req' = [req EXCEPT ![r] = NoRequest]
          /\ prompt' = [prompt EXCEPT ![r] = NoPrompt]
          /\ loop' = 0
          /\ UNCHANGED <<gemini_model, ep, hangs, calls>>

\* generate_content, or reading response.text, raises an exception whose
\* message is m (the except branch).
Raises(r) ==
    /\ st[r] = "calling"
    /\ ~hangs[r]
    /\ \E m \in Messages :
          /\ reply' = [reply EXCEPT ![r] = [kind |-> "error", val |-> m]]
          /\ Finish(r, ErrorBody(ep[r], m))

\* The handler of request r starts on the event loop.
Handle(r) ==
    \/ root(r)
    \/ generate_caption(r)
    \/ generate_hashtags(r)
    \/ generate_ideas(r)
    \/ generate_script(r)
    \/ generate_thumbnail_prompt(r)

Next ==
    \E r \in Requests :
        \/ Arrive(r)
        \/ root(r)
        \/ generate_caption(r)
        \/ generate_hashtags(r)
        \/ generate_ideas(r)
        \/ generate_script(r)
        \/ generate_thumbnail_prompt(r)
        \/ Returns(r)
        \/ Raises(r)

Spec == Init /\ [][Next]_vars

\* The event loop runs a handler that is ready, and a collaborator call that
\* does not hang comes back.
Fairness ==
    \A r \in Requests :
        /\ WF_vars(Handle(r))
        /\ WF_vars(Returns(r) \/ Raises(r))

FairSpec == Spec /\ Fairness

(***************************************************************************)
(* Vocabulary of the properties, stated without the handlers' operators.   *)
(***************************************************************************)

StartsWith(pre, s) == Len(pre) <= Len(s) /\ SubSeq(s, 1, Len(pre)) = pre

EndsWith(suf, s) == Len(suf) <= Len(s) /\ SubSeq(s, Len(s) - Len(suf) + 1, Len(s)) = suf

AllSpace(s) == \A i \in 1..Len(s) : s[i] \in Whitespace

\* t is s with its leading and trailing whitespace removed
IsTrimOf(t, s) ==
    /\ \E i \in 0..(Len(s) - Len(t)) :
          /\ AllSpace(SubSeq(s, 1, i))
          /\ t = SubSeq(s, i + 1, i + Len(t))
          /\ AllSpace(SubSeq(s, i + Len(t) + 1, Len(s)))
    /\ t # <<>> => t[1] \notin Whitespace /\ t[Len(t)] \notin Whitespace

Substrings(s) == {<<>>} \cup {SubSeq(s, i, j) : i, j \in 1..Len(s)}

TrimOf(s) == CHOOSE t \in Substrings(s) : IsTrimOf(t, s)

NoCapitals(s) == \A i \in 1..Len(s) : \A k \in 1..Len(UpperCase) : s[i] # UpperCase[k]

SameLettersAnyCase(a, b) ==
    /\ Len(a) = Len(b)
    /\ \A i \in 1..Len(a) : lower_char(a[i]) = lower_char(b[i])

\* s is the word kw, in any case and with any whitespace around it
IsWord(kw, s) ==
    \E i \in 0..(Len(s) - Len(kw)) :
        /\ AllSpace(SubSeq(s, 1, i))
        /\ SameLettersAnyCase(SubSeq(s, i + 1, i + Len(kw)), kw)
        /\ AllSpace(SubSeq(s, i + Len(kw) + 1, Len(s)))

\* s contains kw, compared case-insensitively
ContainsAnyCase(kw, s) ==
    \E i \in 0..(Len(s) - Len(kw)) : SameLettersAnyCase(SubSeq(s, i + 1, i + Len(kw)), kw)

SuccessFields == {"caption", "hashtags", "ideas", "script", "prompt"}

DesignatedField(e) ==
    CASE e = "caption"   -> "caption"
      [] e = "hashtags"  -> "hashtags"
      [] e = "ideas"     -> "ideas"
      [] e = "script"    -> "script"
      [] e = "thumbnail" -> "prompt"

Generation == Endpoints \ {"root"}

Answered(r) == st[r] = "done" /\ reply[r].kind = "text"

Failed(r) == st[r] = "done" /\ reply[r].kind = "error"

Calling(r, e) == st[r] = "calling" /\ ep[r] = e

IsShortForm(p) == StartsWith(ShortPart1, p) /\ Contains(ph_one_minute, p)

IsLongForm(p) ==
    StartsWith(LongPart1, p) /\ Contains(ph_ten_minutes, p) /\ Contains(ph_timestamps, p)

(***************************************************************************)
(* Properties.                                                             *)
(***************************************************************************)

\* C1: on each generation endpoint, when the collaborator returned text the
\* handler made exactly one call for the request and the response is the
\* object with the single designated success field, whose value is the
\* collaborator's text without its leading and trailing whitespace.
C1_SuccessShape ==
    \A r \in Requests : Answered(r) =>
        /\ ep[r] \in Generation
        /\ calls[r] = 1
        /\ Len(resp[r]) = 1
        /\ DOMAIN resp[r][1].body = {DesignatedField(ep[r])}
        /\ IsTrimOf(resp[r][1].body[DesignatedField(ep[r])], reply[r].val)

C1_Witness ==
    \E r \in Requests :
        /\ Answered(r)
        /\ reply[r].val = txt_hi
        /\ ep[r] = "thumbnail"
        /\ resp[r][1].body.prompt = SubSeq(txt_hi, 3, 10)

\* C2: generate_caption picks its template from choice, trimmed and
\* lower-cased: "caption" gives the catchy-caption prompt, "idea" the
\* creative-marketing-ideas prompt, "launch plan" the launch-plan prompt,
\* anything else (the empty string too) the generic fallback; in every case
\* the prompt sent contains the event text.
C2_CaptionTemplate ==
    \A r \in Requests : Calling(r, "caption") =>
        LET p == prompt[r]
            e == req[r].event
            c == req[r].choice
        IN  /\ Contains(e, p)
            /\ IsWord(kw_caption, c) => Contains(ph_catchy, p)
            /\ IsWord(kw_idea, c) => Contains(ph_creative, p)
            /\ IsWord(kw_launch_plan, c) => Contains(kw_launch_plan, p)
            /\ (~IsWord(kw_caption, c) /\ ~IsWord(kw_idea, c) /\ ~IsWord(kw_launch_plan, c))
                  => p = FallbackTemplate \o e
            /\ (e = ev_sneaker /\ c = ch_caption) => Contains(ph_example, p)

C2_Witness ==
    \E r \in Requests :
        /\ Calling(r, "caption")
        /\ req[r].event = ev_sneaker
        /\ req[r].choice = ch_caption
        /\ Contains(ph_example, prompt[r])

\* C3: generate_script sends the short-form template (1-minute script) iff
\* video_type contains "short" or "reel" compared case-insensitively, and the
\* long-form template (about 10 minutes, timestamps) otherwise; exactly one
\* of the two templates is sent.
C3_ScriptTemplate ==
    \A r \in Requests : Calling(r, "script") =>
        LET p == prompt[r]
            short == \/ ContainsAnyCase(kw_short, req[r].video_type)
                     \/ ContainsAnyCase(kw_reel, req[r].video_type)
        IN  /\ short <=> IsShortForm(p)
            /\ ~short <=> IsLongForm(p)
            /\ IsShortForm(p) # IsLongForm(p)

C3_Witness ==
    \E r \in Requests :
        /\ Calling(r, "script")
        /\ req[r].video_type = vt_reels
        /\ IsShortForm(prompt[r])

\* C4 as stated: when the collaborator fails with message m, the caption,
\* hashtags, ideas and thumbnail-prompt endpoints answer {error: m} and the
\* script endpoint answers the same fixed string whatever m is.
C4_ErrorIsMessage ==
    \A r \in Requests : Failed(r) =>
        /\ ep[r] \in {"caption", "hashtags", "ideas", "thumbnail"}
              => resp[r][1].body = [error |-> reply[r].val]
        /\ ep[r] = "script" => resp[r][1].body = [error |-> ScriptErrorMessage]

\* C4 amended: when the collaborator fails with message m, the hashtags and
\* thumbnail-prompt endpoints answer {error: m}; the caption and ideas
\* endpoints answer an error that is a fixed "Failed to generate ...
\* Reason: " prefix of the endpoint followed by m; the script endpoint
\* answers the same fixed string whatever m is.
C4_ErrorPropagation ==
    \A r \in Requests : Failed(r) =>
        LET err == resp[r][1].body.error
            m   == reply[r].val
        IN  /\ DOMAIN resp[r][1].body = {"error"}
            /\ ep[r] \in {"hashtags", "thumbnail"} => err = m
            /\ ep[r] = "caption" =>
                  StartsWith(CaptionErrorPrefix, err) /\ EndsWith(m, err)
                  /\ Len(err) = Len(CaptionErrorPrefix) + Len(m)
            /\ ep[r] = "ideas" =>
                  StartsWith(IdeasErrorPrefix, err) /\ EndsWith(m, err)
                  /\ Len(err) = Len(IdeasErrorPrefix) + Len(m)
            /\ ep[r] = "script" => err = ScriptErrorMessage /\ ~Contains(m, err)

C4_Witness ==
    \E r, q \in Requests :
        /\ Failed(r) /\ ep[r] = "script" /\ reply[r].val = msg_quota
        /\ Failed(q) /\ ep[q] = "caption" /\ reply[q].val = msg_key
        /\ resp[q][1].body.error = CaptionErrorPrefix \o msg_key

\* C5: a failure of the collaborator call is caught in the handler: the
\* request completes with one 200 response whose body has an error key and
\* no success field, the collaborator was called exactly once for it, and
\* the service is left as it was, free to answer later requests.
C5_FailureCaught ==
    \A r \in Requests : Failed(r) =>
        /\ Len(resp[r]) = 1
        /\ resp[r][1].status = 200
        /\ "error" \in DOMAIN resp[r][1].body
        /\ DOMAIN resp[r][1].body \cap SuccessFields = {}
        /\ calls[r] = 1
        /\ loop # r
        /\ gemini_model = ModelName

C5_Witness ==
    \E r, q \in Requests :
        /\ Failed(r)
        /\ r < q
        /\ Answered(q)
        /\ resp[q][1].status = 200

C7_NonBlocking ==
    \A r, q \in Requests :
        (st[r] = "calling" /\ st[q] = "pending") => ENABLED Handle(q)

\* C8: a collaborator call that never returns hangs only the request that
\* made it: that request gets no response, and every other request gets its
\* response unless its own call hangs.
C8_HangIsolated ==
    /\ [][\A r \in Requests : (st[r] = "calling" /\ hangs[r]) => st'[r] = "calling"]_vars
    /\ \A r \in Requests :
          (st[r] = "pending") ~> (st[r] = "done" \/ (st[r] = "calling" /\ hangs[r]))

\* C9: the shared collaborator handle is never changed, a step touches the
\* state of one request only, and the response to a request is determined
\* by its endpoint and the outcome of its own collaborator call, whatever
\* the other requests are.
C9_NoSharedState ==
    [][/\ gemini_model' = gemini_model
       /\ gemini_model = ModelName
       /\ \E r \in Requests : \A q \in Requests \ {r} :
             /\ st'[q] = st[q] /\ ep'[q] = ep[q] /\ req'[q] = req[q]
             /\ prompt'[q] = prompt[q] /\ reply'[q] = reply[q]
             /\ calls'[q] = calls[q] /\ resp'[q] = resp[q]
       /\ \A r, q \in Requests :
             (st'[r] = "done" /\ st'[q] = "done" /\ ep'[r] = ep'[q] /\ reply'[r] = reply'[q])
                 => resp'[r] = resp'[q]]_vars

C9_Witness ==
    \E r, q \in Requests :
        /\ r # q
        /\ Failed(r)
        /\ Answered(q)
        /\ ep[r] = ep[q]
        /\ gemini_model = ModelName

\* C10 as stated: on every endpoint each field the template uses appears in
\* the prompt exactly as it was supplied in the request.
C10_VerbatimFields ==
    \A r \in Requests : st[r] = "calling" =>
        LET p == prompt[r]
            b == req[r]
        IN  /\ ep[r] = "caption" => Contains(b.event, p)
            /\ ep[r] = "hashtags" => Contains(b.caption, p)
            /\ ep[r] = "ideas" =>
                  Contains(b.platform, p) /\ Contains(b.niche, p) /\ Contains(b.audience_type, p)
            /\ ep[r] = "thumbnail" =>
                  Contains(b.topic, p) /\ Contains(b.style, p) /\ Contains(b.platform, p)
            /\ ep[r] = "script" =>
                  /\ Contains(b.topic, p)
                  /\ IsShortForm(p) => Contains(b.video_type, p)

\* C10 amended: on the caption, hashtags, ideas and thumbnail-prompt
\* endpoints each field the template uses appears in the prompt exactly as
\* supplied; generate_script interpolates topic with its leading and
\* trailing whitespace removed and, in the short-form template, video_type
\* trimmed and lower-cased.
C10_Interpolation ==
    \A r \in Requests : st[r] = "calling" =>
        LET p == prompt[r]
            b == req[r]
        IN  /\ ep[r] = "caption" => EndsWith(b.event, p)
            /\ ep[r] = "hashtags" => Contains(b.caption \o HashtagsTail, p)
            /\ ep[r] = "ideas" =>
                  /\ Contains(b.platform \o IdeasPart2, p)
                  /\ Contains(b.niche \o IdeasPart3, p)
                  /\ Contains(b.audience_type \o IdeasPart4, p)
            /\ ep[r] = "thumbnail" =>
                  /\ Contains(b.platform \o ThumbPart2, p)
                  /\ Contains(b.topic \o ThumbPart3, p)
                  /\ Contains(b.style \o ThumbPart4, p)
            /\ ep[r] = "script" =>
                  /\ Contains(<<"\"">> \o TrimOf(b.topic) \o <<"\"">>, p)
                  /\ IsShortForm(p) =>
                        LET t == TrimOf(b.video_type)
                            v == SubSeq(p, Len(ShortPart1) + 1, Len(ShortPart1) + Len(t))
                        IN  /\ StartsWith(ShortPart1 \o v \o ShortPart2, p)
                            /\ SameLettersAnyCase(v, t)
                            /\ NoCapitals(v)

C10_Witness ==
    \E r \in Requests :
        /\ Calling(r, "script")
        /\ req[r].video_type = vt_short
        /\ req[r].topic = ev_qa
        /\ Contains(SubSeq(ev_qa, 2, 4), prompt[r])
        /\ ~Contains(ev_qa, prompt[r])

====
